---- MODULE Spec2Model ----
(***************************************************************************)
(* Read-meter: the ingestion-and-query engine of src/app.py.               *)
(*                                                                         *)
(* Two ingestion adapters (the MQTT callback on_message and the HTTP push  *)
(* endpoint api_readings) write rows to the SQLite table `readings` and    *)
(* overwrite the in-memory slot latest_reading under latest_lock; four     *)
(* query handlers read the table or the slot.                              *)
(*                                                                         *)
(* Encoding.  JSON/SQL numbers are opaque tokens, written as strings       *)
(* ("220.5"); Python None and SQL NULL are the token None.  A timestamp    *)
(* text is a record [form, wall, off]: `wall` is the written date-time in  *)
(* seconds since 2024-01-01T00:00:00, `off` the written zone offset in     *)
(* seconds, and `form` says how it is written:                             *)
(*    "naive"   2024-01-05T19:00:00                                        *)
(*    "Z"       2024-01-05T19:00:00Z                                       *)
(*    "offset"  2024-01-06T02:00:00+07:00                                  *)
(*    "bad"     a string that is no ISO date-time                          *)
(*    "display" 2024-01-06 02:00:00   (what strftime in to_th_iso writes)  *)
(*    "none"    no value (absent key / None)                               *)
(*    "max"     9999-12-31T23:59:59, the last second datetime can hold;    *)
(*              its wall value does not fit the model's integers and is    *)
(*              written 0, the operators below treat the form by itself    *)
(* The clock `now` is in whole seconds.                                    *)
(***************************************************************************)
EXTENDS Integers, Sequences, FiniteSets, TLC

VARIABLES
    schema,          \* how table readings and its index are declared
    rows,            \* table readings, in rowid (commit) order
    latest_reading,  \* the module global: <<>> is the empty dict {}
    latest_lock,     \* "unlocked", or the thread that holds the lock
    now,             \* datetime.utcnow(), seconds since 2024-01-01T00:00:00
    pc,              \* per thread: where it is in its handler
    req,             \* per thread: the decoded payload (local `data`)
    rec,             \* per thread: the normalized values (locals ts/energy_kwh/...)
    resp,            \* what the handler that just finished returned or logged
    nmsg,            \* number of ingestion calls started so far
    errlog           \* number of "[MQTT] Parse/DB error" lines printed

vars == <<schema, rows, latest_reading, latest_lock, now, pc, req, rec, resp, nmsg, errlog>>

-----------------------------------------------------------------------------
(* Bounds of the model *)

\* ingestion calls per behaviour, concurrent specification
MaxRace == 2
\* ingestion calls per behaviour, serial specification
MaxSeq == 2
\* seconds the clock may advance
MaxElapsed == 9
\* ingestion calls per behaviour, specification with fair scheduling
MaxLock == 2

-----------------------------------------------------------------------------
(* Values *)

None == "None"

REALTIME_STALE_SEC == 8

SecPerHour == 60 * 60
SecPerDay == 24 * SecPerHour

NumFields == {"voltage", "current", "power", "energy_kwh", "frequency", "pf"}

Ts(form, wall, off) == [form |-> form, wall |-> wall, off |-> off]

NoTs == Ts("none", 0, 0)

\* seconds since 2024-01-01T00:00:00 of day-of-january `d`, hour `h`
Jan2024(d, h) == (d - 1) * SecPerDay + h * SecPerHour

\* the instant the process starts: 2024-01-05T19:00:00 UTC
Start == Jan2024(5, 19)

Min(a, b) == IF a < b THEN a ELSE b
Max(a, b) == IF a > b THEN a ELSE b

-----------------------------------------------------------------------------
(* The declaration of table readings: how column ts is declared ("none":   *)
(* no table) and what idx_readings_ts indexes ("none": no index)           *)

\* a database file without table readings
NoSchema == [ts |-> "none", index |-> "none"]

\* what init_db.py creates: ts TEXT, idx_readings_ts ON readings(ts DESC)
InitDbSchema == [ts |-> "TEXT", index |-> "ts DESC"]

\* what app.py creates: ts TEXT NOT NULL, idx_readings_ts ON readings(ts)
AppSchema == [ts |-> "TEXT NOT NULL", index |-> "ts"]

\* the table and the index declared anew whatever the file holds
CreateOrReplaceSchema(s) == AppSchema

\* CREATE TABLE IF NOT EXISTS readings; CREATE INDEX IF NOT EXISTS
\* idx_readings_ts; commit
ensure_readings_schema(s) ==
    [ts |-> IF s.ts = "none" THEN AppSchema.ts ELSE s.ts,
     index |-> IF s.index = "none" THEN AppSchema.index ELSE s.index]

-----------------------------------------------------------------------------
(* Timestamps: Python's parser, SQLite's text order and date functions *)

\* datetime.fromisoformat after the Z -> +00:00 rewrite succeeds
ParsesIso(ts) == ts.form \in {"naive", "Z", "offset", "display", "max"}

\* _parse_iso_lenient(s) followed by .replace(tzinfo=None): the written
\* wall-clock value, the zone dropped without conversion
NaiveWall(ts) == ts.wall

\* what to_th_iso gives when `ts + timedelta(hours=7)` leaves the range of
\* datetime: the addition is outside the try block, OverflowError propagates
OverflowError == Ts("OverflowError", 0, 0)

\* to_th_iso: wall clock plus 7 hours, written without zone; the raw value
\* when it does not parse
to_th_iso(ts) ==
    IF ~ParsesIso(ts) THEN ts
    ELSE IF ts.form = "max" THEN OverflowError
    ELSE Ts("display", ts.wall + 7 * SecPerHour, 0)

\* datetime.utcnow().isoformat()
UtcNowIso(t) == Ts("naive", t, 0)

\* Byte order of two timestamp texts (SQLite BINARY collation).  ISO texts
\* start with the 19 characters of the date-time, so they order by wall
\* clock first and by the suffix next ("" < "+hh:mm" < "Z"); year 9999
\* sorts after the other years; the garbage text starts with a letter and
\* sorts after every digit.
TextKey(ts) ==
    << CASE ts.form = "bad" -> 2
         [] ts.form = "max" -> 1
         [] OTHER -> 0,
       IF ts.form \in {"bad", "max"} THEN 0 ELSE ts.wall,
       CASE ts.form = "naive" -> 0
         [] ts.form = "offset" -> 1
         [] ts.form = "Z" -> 2
         [] OTHER -> 0,
       IF ts.form = "offset" THEN ts.off ELSE 0 >>

RECURSIVE LexLess(_, _, _)
LexLess(a, b, i) ==
    IF i > Len(a) THEN FALSE
    ELSE IF a[i] # b[i] THEN a[i] < b[i]
    ELSE LexLess(a, b, i + 1)

TextLess(a, b) == LexLess(TextKey(a), TextKey(b), 1)

\* SQLite's date functions accept the ISO forms and convert to UTC
SqlParses(ts) == ts.form \in {"naive", "Z", "offset", "max"}

\* the zone suffix ignored: the day as written
SqlDateAsWritten(ts) == ts.wall \div SecPerDay

\* 9999-12-31, as days since 2024-01-01
LastDay == 2913173

\* DATE(ts): the UTC calendar day, as days since 2024-01-01
SqlDate(ts) ==
    IF ts.form = "max" THEN LastDay ELSE (ts.wall - ts.off) \div SecPerDay

\* strftime('%Y', ts), for days of 2023, of 2024 and the last day
SqlYear(ts) ==
    IF ts.form = "max" THEN 9999 ELSE IF SqlDate(ts) < 0 THEN 2023 ELSE 2024

MonthLens(y) ==
    <<31, IF y = 2024 THEN 29 ELSE 28, 31, 30, 31, 30, 31, 31, 30, 31, 30, 31>>

RECURSIVE MonthFrom(_, _, _)
MonthFrom(lens, doy, m) ==
    IF m >= 12 \/ doy < lens[m] THEN m ELSE MonthFrom(lens, doy - lens[m], m + 1)

\* strftime('%m', ts)
SqlMonth(ts) ==
    LET d == SqlDate(ts)
        doy == IF d < 0 THEN d + 365 ELSE d
    IN  IF ts.form = "max" THEN 12 ELSE MonthFrom(MonthLens(SqlYear(ts)), doy, 1)

-----------------------------------------------------------------------------
(* Payloads and normalization *)

\* dict.get(k) on a decoded payload
Get(data, k) == IF k \in DOMAIN data THEN data[k] ELSE None

\* data.get("ts")
GetTs(data) == IF "ts" \in DOMAIN data THEN data["ts"] ELSE NoTs

\* Python truth of a ts value: None and "" are false
TsTruthy(ts) == ts.form \notin {"none", "empty"}

\* data.get("ts") or datetime.datetime.utcnow().isoformat()
TsOrNow(data, t) == IF TsTruthy(GetTs(data)) THEN GetTs(data) ELSE UtcNowIso(t)

\* the rename left out: energy_kwh = data.get("energy_kwh") and no more
EnergyKwhNoRename(data) == Get(data, "energy_kwh")

\* energy_kwh = data.get("energy_kwh");
\* if energy_kwh is None and "energy" in data: energy_kwh = data.get("energy")
EnergyKwh(data) ==
    IF Get(data, "energy_kwh") = None /\ "energy" \in DOMAIN data
    THEN Get(data, "energy")
    ELSE Get(data, "energy_kwh")

\* the values on_message binds to the INSERT and puts in latest_reading
MqttRecord(data, ts_raw) ==
    [ts |-> ts_raw,
     voltage |-> Get(data, "voltage"),
     current |-> Get(data, "current"),
     power |-> Get(data, "power"),
     energy_kwh |-> EnergyKwh(data),
     frequency |-> Get(data, "frequency"),
     pf |-> Get(data, "pf")]

\* the values api_readings binds to the INSERT and puts in latest_reading
ApiRecord(data, ts) ==
    [ts |-> ts,
     voltage |-> Get(data, "voltage"),
     current |-> Get(data, "current"),
     power |-> Get(data, "power"),
     energy_kwh |-> EnergyKwh(data),
     frequency |-> Get(data, "frequency"),
     pf |-> Get(data, "pf")]

NoRec ==
    [ts |-> NoTs, voltage |-> None, current |-> None, power |-> None,
     energy_kwh |-> None, frequency |-> None, pf |-> None]

\* the empty dict
EmptyDict == <<>>

-----------------------------------------------------------------------------
(* Messages a sensor node or any client can send *)

Obj(data) == [kind |-> "object", data |-> data]

\* a body that is not JSON
Malformed == [kind |-> "malformed", data |-> EmptyDict]
\* a JSON array such as [1]: decodes, but is no mapping
JsonArray == [kind |-> "array", data |-> EmptyDict]
\* an empty body
EmptyBody == [kind |-> "empty", data |-> EmptyDict]

\* the spec's scenario: energy, no energy_kwh, no ts
FullEnergy ==
    [voltage |-> "220.5", current |-> "1.2", power |-> "264.6",
     energy |-> "0.03", frequency |-> "50.0", pf |-> "0.98"]

\* 2024-01-05T10:00:00, energy_kwh only
EarlyKwh ==
    [ts |-> Ts("naive", Jan2024(5, 10), 0), voltage |-> "221.0",
     energy_kwh |-> "5.5"]

\* 2024-01-05T23:00:00, both energy and energy_kwh
LateBoth ==
    [ts |-> Ts("naive", Jan2024(5, 23), 0), voltage |-> "222.0",
     energy |-> "0.04", energy_kwh |-> "6.5", pf |-> "0"]

\* 2024-01-06T01:00:00Z, energy_kwh null and energy given
NextDayZ ==
    [ts |-> Ts("Z", Jan2024(6, 1), 0), voltage |-> "223.0",
     energy |-> "0.05", energy_kwh |-> None]

\* 2024-01-06T02:00:00+07:00, the instant 2024-01-05T19:00:00 UTC
LocalOffset ==
    [ts |-> Ts("offset", Jan2024(6, 2), 7 * SecPerHour), voltage |-> "224.0",
     energy |-> "0.06"]

\* ts is no timestamp
BadTs ==
    [ts |-> Ts("bad", 0, 0), voltage |-> "225.0", energy_kwh |-> "7.5"]

\* 2024-02-01T00:00:00
NextMonth ==
    [ts |-> Ts("naive", Jan2024(32, 0), 0), voltage |-> "226.0"]

\* 9999-12-31T23:59:59
EndOfTime ==
    [ts |-> Ts("max", 0, 0), voltage |-> "228.0"]

\* 2023-01-05T10:00:00
LastYear ==
    [ts |-> Ts("naive", Jan2024(5, 10) - 365 * SecPerDay, 0), voltage |-> "227.0"]

SeqMsgs ==
    {Obj(FullEnergy), Obj(EarlyKwh), Obj(LateBoth), Obj(NextDayZ),
     Obj(LocalOffset), Obj(BadTs), Obj(NextMonth), Obj(LastYear),
     Obj(EndOfTime),
     Malformed, JsonArray, EmptyBody}

RaceMsgs == {Obj(FullEnergy), Obj(LocalOffset), Malformed}

-----------------------------------------------------------------------------
(* Threads *)

Mqtt == "mqtt"
HttpThreads == {"p1", "p2"}
Threads == {Mqtt} \cup HttpThreads

NoMsg == [kind |-> "none", data |-> EmptyDict]

\* resp when the last step finished no handler
NoResp ==
    [op |-> "none", thread |-> "none", kind |-> "none", status |-> "none",
     error |-> "none", stored |-> FALSE, cached |-> FALSE, rec |-> NoRec,
     arg |-> <<>>, out |-> <<>>]

Idle(t) == pc[t] = "idle"
Quiescent == \A t \in Threads : Idle(t)

\* the __main__ block has run: the feed thread and the server are up
Started == \A t \in Threads : pc[t] # "unstarted"

\* the module is loaded, __main__ has not run yet; the database file is
\* new, or init_db.py has prepared it
Init ==
    /\ schema \in {NoSchema, InitDbSchema}
    /\ rows = <<>>
    /\ latest_reading = EmptyDict
    /\ latest_lock = "unlocked"
    /\ now = Start
    /\ pc = [t \in Threads |-> "unstarted"]
    /\ req = [t \in Threads |-> NoMsg]
    /\ rec = [t \in Threads |-> NoRec]
    /\ resp = NoResp
    /\ nmsg = 0
    /\ errlog = 0

\* the __main__ block: ensure_readings_schema, then start the MQTT worker
\* thread and the server
main ==
    /\ \A t \in Threads : pc[t] = "unstarted"
    /\ schema' = ensure_readings_schema(schema)
    /\ pc' = [t \in Threads |-> "idle"]
    /\ resp' = NoResp
    /\ UNCHANGED <<rows, latest_reading, latest_lock, now, req, rec, nmsg, errlog>>

Finish(t) ==
    /\ pc' = [pc EXCEPT ![t] = "idle"]
    /\ req' = [req EXCEPT ![t] = NoMsg]
    /\ rec' = [rec EXCEPT ![t] = NoRec]

\* what a finished ingestion call leaves behind: how it ended (status:
\* "returned" for the callback, the HTTP status for the endpoint), the
\* exception it met, and whether it had inserted and had assigned the slot
IngestResp(op, t, status, error, stored, cached) ==
    [op |-> op, thread |-> t, kind |-> req[t].kind, status |-> status,
     error |-> error, stored |-> stored, cached |-> cached, rec |-> rec[t],
     arg |-> <<>>, out |-> <<>>]

-----------------------------------------------------------------------------
(* on_message: the MQTT callback, one message at a time on the mqtt thread *)

\* no except clause: the exception leaves the callback and ends the loop
MqttDecodeErrorRaised(m) ==
    /\ Idle(Mqtt)
    /\ m.kind # "object"
    /\ nmsg' = nmsg + 1
    /\ pc' = [pc EXCEPT ![Mqtt] = "dead"]
    /\ resp' = [NoResp EXCEPT !.op = "on_message", !.thread = Mqtt,
                              !.kind = m.kind, !.status = "raised",
                              !.error = "decode"]
    /\ UNCHANGED <<schema, rows, latest_reading, latest_lock, now, req, rec, errlog>>

\* json.loads raises, or data.get raises AttributeError on a non-mapping:
\* the except clause prints and the callback returns
MqttDecodeError(m) ==
    /\ Idle(Mqtt)
    /\ m.kind # "object"
    /\ nmsg' = nmsg + 1
    /\ errlog' = errlog + 1
    /\ resp' = [NoResp EXCEPT !.op = "on_message", !.thread = Mqtt,
                              !.kind = m.kind, !.status = "returned",
                              !.error = "decode"]
    /\ UNCHANGED <<schema, rows, latest_reading, latest_lock, now, pc, req, rec>>

\* lines 134-143: decode, map energy, default ts
MqttDecode(m) ==
    /\ Idle(Mqtt)
    /\ m.kind = "object"
    /\ nmsg' = nmsg + 1
    /\ pc' = [pc EXCEPT ![Mqtt] = "insert"]
    /\ req' = [req EXCEPT ![Mqtt] = m]
    /\ rec' = [rec EXCEPT ![Mqtt] = MqttRecord(m.data, TsOrNow(m.data, now))]
    /\ resp' = NoResp
    /\ UNCHANGED <<schema, rows, latest_reading, latest_lock, now, errlog>>

\* the INSERT moved inside the with block: the lock is taken first
MqttInsertLocked ==
    /\ pc[Mqtt] = "insert"
    /\ latest_lock = "unlocked"
    /\ latest_lock' = Mqtt
    /\ rows' = Append(rows, rec[Mqtt])
    /\ pc' = [pc EXCEPT ![Mqtt] = "assign"]
    /\ resp' = NoResp
    /\ UNCHANGED <<schema, latest_reading, now, req, rec, nmsg, errlog>>

\* lines 146-162: connect, INSERT, commit, close
MqttInsert ==
    /\ pc[Mqtt] = "insert"
    /\ rows' = Append(rows, rec[Mqtt])
    /\ pc' = [pc EXCEPT ![Mqtt] = "acquire"]
    /\ resp' = NoResp
    /\ UNCHANGED <<schema, latest_reading, latest_lock, now, req, rec, nmsg, errlog>>

\* the connect, the INSERT or the commit raises: finally closes the
\* connection, the except clause prints, the callback returns
MqttInsertError ==
    /\ pc[Mqtt] = "insert"
    /\ errlog' = errlog + 1
    /\ resp' = IngestResp("on_message", Mqtt, "returned", "storage", FALSE, FALSE)
    /\ Finish(Mqtt)
    /\ UNCHANGED <<schema, rows, latest_reading, latest_lock, now, nmsg>>

\* line 164: with latest_lock
MqttAcquire ==
    /\ pc[Mqtt] = "acquire"
    /\ latest_lock = "unlocked"
    /\ latest_lock' = Mqtt
    /\ pc' = [pc EXCEPT ![Mqtt] = "assign"]
    /\ resp' = NoResp
    /\ UNCHANGED <<schema, rows, latest_reading, now, req, rec, nmsg, errlog>>

\* the slot updated key by key with the values the message carries
MqttAssignMerge ==
    /\ pc[Mqtt] = "assign"
    /\ latest_reading' =
          LET keep(f) == IF rec[Mqtt][f] = None THEN latest_reading[f]
                         ELSE rec[Mqtt][f]
          IN  IF latest_reading = EmptyDict THEN rec[Mqtt]
              ELSE [ts |-> rec[Mqtt].ts, voltage |-> keep("voltage"),
                    current |-> keep("current"), power |-> keep("power"),
                    energy_kwh |-> keep("energy_kwh"),
                    frequency |-> keep("frequency"), pf |-> keep("pf")]
    /\ pc' = [pc EXCEPT ![Mqtt] = "release"]
    /\ resp' = NoResp
    /\ UNCHANGED <<schema, rows, latest_lock, now, req, rec, nmsg, errlog>>

\* lines 165-173: latest_reading = {...}
MqttAssign ==
    /\ pc[Mqtt] = "assign"
    /\ latest_reading' = rec[Mqtt]
    /\ pc' = [pc EXCEPT ![Mqtt] = "release"]
    /\ resp' = NoResp
    /\ UNCHANGED <<schema, rows, latest_lock, now, req, rec, nmsg, errlog>>

\* leaving the with block
MqttRelease ==
    /\ pc[Mqtt] = "release"
    /\ latest_lock' = "unlocked"
    /\ pc' = [pc EXCEPT ![Mqtt] = "print"]
    /\ resp' = NoResp
    /\ UNCHANGED <<schema, rows, latest_reading, now, req, rec, nmsg, errlog>>

\* line 174: print(..., latest_reading), outside the lock; the callback returns
MqttPrint ==
    /\ pc[Mqtt] = "print"
    /\ resp' = [IngestResp("on_message", Mqtt, "returned", "none", TRUE, TRUE)
                  EXCEPT !.out = latest_reading]
    /\ Finish(Mqtt)
    /\ UNCHANGED <<schema, rows, latest_reading, latest_lock, now, nmsg, errlog>>

-----------------------------------------------------------------------------
(* api_readings: POST /api/readings, one call per request thread *)

\* request.get_json(silent=True) or {}: a body that does not parse gives
\* None, and None, [] and {} all give {}
GetJsonOrEmpty(m) == IF m.kind = "object" THEN m.data ELSE EmptyDict

\* a JSON array is truthy and is kept: after ensure_readings_schema,
\* data.get raises AttributeError at line 401, which nothing catches (HTTP 500)
ApiNotMapping(t, m) ==
    /\ Idle(t)
    /\ m.kind = "array"
    /\ nmsg' = nmsg + 1
    /\ resp' = [NoResp EXCEPT !.op = "api_readings", !.thread = t,
                              !.kind = m.kind, !.status = "500",
                              !.error = "attribute"]
    /\ schema' = ensure_readings_schema(schema)
    /\ UNCHANGED <<rows, latest_reading, latest_lock, now, pc, req, rec, errlog>>

\* lines 397-405: decode, ensure_readings_schema, map energy, default ts
ApiDecode(t, m) ==
    /\ Idle(t)
    /\ m.kind # "array"
    /\ nmsg' = nmsg + 1
    /\ pc' = [pc EXCEPT ![t] = "insert"]
    /\ req' = [req EXCEPT ![t] = m]
    /\ rec' = [rec EXCEPT ![t] =
                 ApiRecord(GetJsonOrEmpty(m), TsOrNow(GetJsonOrEmpty(m), now))]
    /\ resp' = NoResp
    /\ schema' = ensure_readings_schema(schema)
    /\ UNCHANGED <<rows, latest_reading, latest_lock, now, errlog>>

\* lines 406-412: INSERT and commit
ApiInsert(t) ==
    /\ pc[t] = "insert"
    /\ rows' = Append(rows, rec[t])
    /\ pc' = [pc EXCEPT ![t] = "acquire"]
    /\ resp' = NoResp
    /\ UNCHANGED <<schema, latest_reading, latest_lock, now, req, rec, nmsg, errlog>>

\* the INSERT or the commit raises; nothing catches it (HTTP 500)
ApiInsertError(t) ==
    /\ pc[t] = "insert"
    /\ resp' = IngestResp("api_readings", t, "500", "storage", FALSE, FALSE)
    /\ Finish(t)
    /\ UNCHANGED <<schema, rows, latest_reading, latest_lock, now, nmsg, errlog>>

\* line 414: with latest_lock
ApiAcquire(t) ==
    /\ pc[t] = "acquire"
    /\ latest_lock = "unlocked"
    /\ latest_lock' = t
    /\ pc' = [pc EXCEPT ![t] = "assign"]
    /\ resp' = NoResp
    /\ UNCHANGED <<schema, rows, latest_reading, now, req, rec, nmsg, errlog>>

\* the slot's ts taken anew: the clock is read again when the payload has none
ApiAssignNow(t) ==
    /\ pc[t] = "assign"
    /\ latest_reading' =
          [rec[t] EXCEPT !.ts = TsOrNow(GetJsonOrEmpty(req[t]), now)]
    /\ pc' = [pc EXCEPT ![t] = "release"]
    /\ resp' = NoResp
    /\ UNCHANGED <<schema, rows, latest_lock, now, req, rec, nmsg, errlog>>

\* lines 415-423: latest_reading = {...}
ApiAssign(t) ==
    /\ pc[t] = "assign"
    /\ latest_reading' = rec[t]
    /\ pc' = [pc EXCEPT ![t] = "release"]
    /\ resp' = NoResp
    /\ UNCHANGED <<schema, rows, latest_lock, now, req, rec, nmsg, errlog>>

\* leaving the with block, then line 424: return jsonify({"ok": True})
ApiReturn(t) ==
    /\ pc[t] = "release"
    /\ latest_lock' = "unlocked"
    /\ resp' = [IngestResp("api_readings", t, "200", "none", TRUE, TRUE)
                  EXCEPT !.out = [ok |-> TRUE]]
    /\ Finish(t)
    /\ UNCHANGED <<schema, rows, latest_reading, now, nmsg, errlog>>

-----------------------------------------------------------------------------
(* The query handlers.  Each runs on a request thread; its one SELECT sees  *)
(* one state of the store, its copy of the slot is made under latest_lock. *)

QueryResp(op, arg, out) ==
    [NoResp EXCEPT !.op = op, !.status = "200", !.arg = arg, !.out = out]

\* the handler's answer: jsonify(out), or HTTP 500 when one of the to_th_iso
\* calls (results tss) raised, which no handler catches
Jsonify(op, arg, tss, out) ==
    IF OverflowError \in tss
    THEN [NoResp EXCEPT !.op = op, !.status = "500", !.error = "overflow",
                        !.arg = arg]
    ELSE QueryResp(op, arg, out)

Perms(n) == {p \in [1..n -> 1..n] : \A i, j \in 1..n : p[i] = p[j] => i = j}

\* rows with equal ts in an order that may differ from call to call
OrderByTsDescAnyTie(rws) ==
    {p \in Perms(Len(rws)) :
        \A i, j \in 1..Len(rws) : i < j => ~TextLess(rws[p[i]].ts, rws[p[j]].ts)}

\* ORDER BY ts DESC: the order of the row ids that descends by text.  The
\* statement walks idx_readings_ts, whose entries are (ts, rowid): backwards
\* when the index is on ts (rows with equal ts come newest rowid first),
\* forwards when it is on ts DESC (equal ts: oldest rowid first).
OrderByTsDesc(rws) ==
    {p \in Perms(Len(rws)) :
        \A i, j \in 1..Len(rws) : i < j =>
            /\ ~TextLess(rws[p[i]].ts, rws[p[j]].ts)
            /\ rws[p[i]].ts = rws[p[j]].ts =>
                  IF schema.index = "ts DESC" THEN p[i] < p[j] ELSE p[i] > p[j]}

\* LIMIT n: a negative limit is no limit
SqlLimit(len, n) == IF n < 0 THEN len ELSE Min(n, len)

\* d = dict(r); d["ts"] = to_th_iso(d["ts"])
DisplayRow(r) == [r EXCEPT !.ts = to_th_iso(r.ts)]

\* rows[::-1] of the first `lim` rows in order p, each converted for display
HistoryData(rws, p, lim) ==
    [i \in 1..lim |-> DisplayRow(rws[p[lim + 1 - i]])]

\* GET /api/history?n=
api_history(n) ==
    /\ \E p \in OrderByTsDesc(rows) :
         LET data == HistoryData(rows, p, SqlLimit(Len(rows), n))
         IN  resp' = Jsonify("api_history", <<n>>,
                             {data[i].ts : i \in 1..Len(data)}, data)
    /\ schema' = ensure_readings_schema(schema)
    /\ UNCHANGED <<rows, latest_reading, latest_lock, now, pc, req, rec, nmsg, errlog>>

\* GET /api/latest: ORDER BY ts DESC LIMIT 1, fetchone
api_latest ==
    /\ \E p \in OrderByTsDesc(rows) :
         resp' = IF Len(rows) = 0
                 THEN QueryResp("api_latest", <<>>, EmptyDict)
                 ELSE Jsonify("api_latest", <<>>, {to_th_iso(rows[p[1]].ts)},
                              DisplayRow(rows[p[1]]))
    /\ schema' = ensure_readings_schema(schema)
    /\ UNCHANGED <<rows, latest_reading, latest_lock, now, pc, req, rec, nmsg, errlog>>

\* Python truth of a number: None and zero are false
Falsy(v) == v \in {None, "0", "0.0"}

\* snap.get(k) or 0
Or0(v) == IF Falsy(v) THEN "0" ELSE v

\* max(0, (now_utc - t.replace(tzinfo=None)).total_seconds()), where t is
\* now_utc when the cached ts does not parse
AgeSec(ts, t) ==
    IF ~ParsesIso(ts) THEN 0
    ELSE IF ts.form = "max" THEN 0
    ELSE Max(0, t - NaiveWall(ts))

RealtimePayload(snap, t) ==
    IF DOMAIN snap = {} \/ ~TsTruthy(snap.ts)
    THEN [ts |-> to_th_iso(UtcNowIso(t)),
          voltage |-> "0", current |-> "0", power |-> "0", energy_kwh |-> "0",
          frequency |-> "0", pf |-> "0", stale |-> TRUE, age_sec |-> None]
    ELSE LET age_sec == AgeSec(snap.ts, t)
             stale == age_sec > REALTIME_STALE_SEC
         IN  [ts |-> to_th_iso(snap.ts),
              voltage |-> IF stale THEN "0" ELSE Or0(snap.voltage),
              current |-> IF stale THEN "0" ELSE Or0(snap.current),
              power |-> IF stale THEN "0" ELSE Or0(snap.power),
              energy_kwh |-> IF stale THEN "0" ELSE Or0(snap.energy_kwh),
              frequency |-> IF stale THEN "0" ELSE Or0(snap.frequency),
              pf |-> IF stale THEN "0" ELSE Or0(snap.pf),
              stale |-> stale, age_sec |-> age_sec]

\* GET /api/realtime, line 322: with latest_lock
RealtimeAcquire(t) ==
    /\ Idle(t)
    /\ latest_lock = "unlocked"
    /\ latest_lock' = t
    /\ pc' = [pc EXCEPT ![t] = "realtime"]
    /\ resp' = NoResp
    /\ UNCHANGED <<schema, rows, latest_reading, now, req, rec, nmsg, errlog>>

\* lines 323-357: copy the slot, leave the with block, evaluate the copy
api_realtime(t) ==
    /\ pc[t] = "realtime"
    /\ latest_lock' = "unlocked"
    /\ pc' = [pc EXCEPT ![t] = "idle"]
    /\ LET payload == RealtimePayload(latest_reading, now)
       IN  resp' = Jsonify("api_realtime", <<>>, {payload.ts}, payload)
    /\ UNCHANGED <<schema, rows, latest_reading, now, req, rec, nmsg, errlog>>

\* GET /home, line 226: with latest_lock
HomeAcquire(t) ==
    /\ Idle(t)
    /\ latest_lock = "unlocked"
    /\ latest_lock' = t
    /\ pc' = [pc EXCEPT ![t] = "home"]
    /\ resp' = NoResp
    /\ UNCHANGED <<schema, rows, latest_reading, now, req, rec, nmsg, errlog>>

\* lines 227-234: copy the slot, leave the with block, render the copy
home(t) ==
    /\ pc[t] = "home"
    /\ latest_lock' = "unlocked"
    /\ pc' = [pc EXCEPT ![t] = "idle"]
    /\ resp' = QueryResp("home", <<>>, latest_reading)
    /\ UNCHANGED <<schema, rows, latest_reading, now, req, rec, nmsg, errlog>>

\* WHERE strftime('%Y', ts)=? AND strftime('%m', ts)=?: the row ids kept
MonthIds(rws, year, month) ==
    {i \in 1..Len(rws) :
        /\ SqlParses(rws[i].ts)
        /\ SqlYear(rws[i].ts) = year
        /\ SqlMonth(rws[i].ts) = month}

\* GROUP BY day: the row ids of one DATE(ts)
DayGroup(rws, ids, day) == {i \in ids : SqlDate(rws[i].ts) = day}

\* MIN(ts) of a group, by the column's text order
MinTs(rws, group) ==
    rws[CHOOSE i \in group : \A j \in group : ~TextLess(rws[j].ts, rws[i].ts)].ts

\* any row of the group
BareColumnAnyRow(rws, group) == group

\* the row the bare columns voltage..pf are taken from: with one MIN()
\* aggregate SQLite takes them from the row that holds the minimum, the
\* first one in rowid order when several hold it
BareColumnRows(rws, group) ==
    {i \in group :
        /\ rws[i].ts = MinTs(rws, group)
        /\ \A j \in group : rws[j].ts = MinTs(rws, group) => i <= j}

RECURSIVE SortAsc(_)
SortAsc(S) ==
    IF S = {} THEN <<>>
    ELSE LET lo == CHOOSE x \in S : \A y \in S : x <= y
         IN  <<lo>> \o SortAsc(S \ {lo})

\* one result row, after d["ts"] = to_th_iso(d["ts"])
Bucket(rws, group, day, i) ==
    [day |-> day, ts |-> to_th_iso(MinTs(rws, group)),
     voltage |-> rws[i].voltage, current |-> rws[i].current,
     power |-> rws[i].power, energy_kwh |-> rws[i].energy_kwh,
     frequency |-> rws[i].frequency, pf |-> rws[i].pf]

\* GET /api/monthly?year=&month=
api_monthly(year, month) ==
    /\ LET ids == MonthIds(rows, year, month)
           days == SortAsc({SqlDate(rows[i].ts) : i \in ids})
       IN  \E pick \in [1..Len(days) -> 1..Len(rows)] :
             /\ \A k \in 1..Len(days) :
                  pick[k] \in BareColumnRows(rows, DayGroup(rows, ids, days[k]))
             /\ LET out == [k \in 1..Len(days) |->
                               Bucket(rows, DayGroup(rows, ids, days[k]),
                                      days[k], pick[k])]
                IN  resp' = Jsonify("api_monthly", <<year, month>>,
                                    {out[k].ts : k \in 1..Len(out)}, out)
    /\ schema' = ensure_readings_schema(schema)
    /\ UNCHANGED <<rows, latest_reading, latest_lock, now, pc, req, rec, nmsg, errlog>>

\* the counts and months a dashboard asks for
HistoryNs == {-1, 0, 1, 2, 100}
MonthArgs == {<<2024, 1>>, <<2024, 2>>, <<2023, 1>>}

-----------------------------------------------------------------------------
(* The clock *)

TickSteps == {4, 5}

Tick ==
    /\ \E d \in TickSteps :
         /\ now + d <= Start + MaxElapsed
         /\ now' = now + d
    /\ resp' = NoResp
    /\ UNCHANGED <<schema, rows, latest_reading, latest_lock, pc, req, rec, nmsg, errlog>>

-----------------------------------------------------------------------------
(* Specifications *)

\* the handlers' steps after a payload was taken
Steps ==
    \/ MqttInsert
    \/ MqttInsertError
    \/ MqttAcquire
    \/ MqttAssign
    \/ MqttRelease
    \/ MqttPrint
    \/ \E t \in HttpThreads : ApiInsert(t)
    \/ \E t \in HttpThreads : ApiInsertError(t)
    \/ \E t \in HttpThreads : ApiAcquire(t)
    \/ \E t \in HttpThreads : ApiAssign(t)
    \/ \E t \in HttpThreads : ApiReturn(t)

\* the feed thread and the request threads run concurrently
Next ==
    \/ \E m \in RaceMsgs : nmsg < MaxRace /\ MqttDecodeError(m)
    \/ \E m \in RaceMsgs : nmsg < MaxRace /\ MqttDecode(m)
    \/ \E m \in RaceMsgs \cup {JsonArray}, t \in HttpThreads :
          nmsg < MaxRace /\ ApiNotMapping(t, m)
    \/ \E m \in RaceMsgs, t \in HttpThreads : nmsg < MaxRace /\ ApiDecode(t, m)
    \/ Steps
    \/ Tick
    \/ \E t \in HttpThreads : RealtimeAcquire(t)
    \/ \E t \in HttpThreads : api_realtime(t)
    \/ \E t \in HttpThreads : HomeAcquire(t)
    \/ \E t \in HttpThreads : home(t)
    \/ main

\* the interleavings do not depend on how the table is declared: the
\* concurrent specifications start from a new database file
InitNew == Init /\ schema = NoSchema

Spec == InitNew /\ [][Next]_vars

\* one request or message at a time, any payload, the queries on the store
\* and on the slot; the clock stands still
NextSeq ==
    \/ \E m \in SeqMsgs : nmsg < MaxSeq /\ Quiescent /\ MqttDecodeError(m)
    \/ \E m \in SeqMsgs : nmsg < MaxSeq /\ Quiescent /\ MqttDecode(m)
    \/ \E m \in SeqMsgs, t \in HttpThreads :
          nmsg < MaxSeq /\ Quiescent /\ ApiNotMapping(t, m)
    \/ \E m \in SeqMsgs, t \in HttpThreads :
          nmsg < MaxSeq /\ Quiescent /\ ApiDecode(t, m)
    \/ Steps
    \/ \E n \in HistoryNs : Quiescent /\ api_history(n)
    \/ Quiescent /\ api_latest
    \/ \E a \in MonthArgs : Quiescent /\ api_monthly(a[1], a[2])
    \/ \E t \in HttpThreads : Quiescent /\ RealtimeAcquire(t)
    \/ \E t \in HttpThreads : api_realtime(t)
    \/ main

SpecSeq == Init /\ [][NextSeq]_vars

\* the payload of the fair specification
LockMsgs == {Obj(FullEnergy)}

\* ingestions and slot readers on their threads, no clock
NextLock ==
    \/ \E m \in LockMsgs : nmsg < MaxLock /\ MqttDecode(m)
    \/ \E m \in LockMsgs, t \in HttpThreads : nmsg < MaxLock /\ ApiDecode(t, m)
    \/ Steps
    \/ \E t \in HttpThreads : RealtimeAcquire(t)
    \/ \E t \in HttpThreads : api_realtime(t)
    \/ \E t \in HttpThreads : HomeAcquire(t)
    \/ \E t \in HttpThreads : home(t)
    \/ main

\* a thread inside a with latest_lock block is runnable, and the interpreter
\* lets every runnable thread run: the steps inside the block are taken
LockFairness ==
    /\ WF_vars(MqttAssign)
    /\ WF_vars(MqttRelease)
    /\ \A t \in HttpThreads : WF_vars(ApiAssign(t))
    /\ \A t \in HttpThreads : WF_vars(ApiReturn(t))
    /\ \A t \in HttpThreads : WF_vars(api_realtime(t))
    /\ \A t \in HttpThreads : WF_vars(home(t))

SpecLock == InitNew /\ [][NextLock]_vars /\ LockFairness

-----------------------------------------------------------------------------
(* Properties *)

\* a text that denotes a time the model's integers can hold
HasTime(ts) == ts.form \in {"naive", "Z", "offset"}

\* the UTC instant a timestamp text denotes
Instant(ts) == ts.wall - ts.off

\* the time of a is not after the time of b
NotAfter(a, b) ==
    \/ b.form = "max"
    \/ HasTime(a) /\ HasTime(b) /\ Instant(a) <= Instant(b)

\* the columns of a stored row and the keys of a filled slot
RecordKeys == {"ts"} \cup NumFields

\* a payload with `energy` and without `energy_kwh`
EnergyOnly(m) ==
    /\ m.kind = "object"
    /\ "energy" \in DOMAIN m.data
    /\ "energy_kwh" \notin DOMAIN m.data

\* thread t's insert commits in this step
Commits(t) == pc[t] = "insert" /\ pc'[t] = "acquire"

\* thread t assigns the slot in this step
Assigns(t) == pc[t] = "assign" /\ pc'[t] = "release"

\* C1: when a payload has `energy` and no `energy_kwh`, the row its
\* ingestion appends and the slot value its ingestion assigns both carry the
\* payload's `energy` as energy_kwh, and neither has a field `energy`; on the
\* feed adapter and on the push adapter.
C1_EnergyRenamed ==
    [][\A t \in Threads :
          EnergyOnly(req[t]) =>
             /\ Commits(t) =>
                  /\ Len(rows') = Len(rows) + 1
                  /\ rows'[Len(rows')].energy_kwh = req[t].data["energy"]
                  /\ DOMAIN rows'[Len(rows')] = RecordKeys
             /\ Assigns(t) =>
                  /\ latest_reading'.energy_kwh = req[t].data["energy"]
                  /\ DOMAIN latest_reading' = RecordKeys]_vars

\* both adapters have stored and cached an energy-only payload
C1_Witness ==
    /\ resp.op = "api_readings"
    /\ resp.status = "200"
    /\ Len(rows) = 2
    /\ rows[1].energy_kwh = "0.06"
    /\ rows[2].energy_kwh = "0.03"
    /\ latest_reading.energy_kwh = "0.03"

\* the returned records' display times never decrease
AscendingOut(out) ==
    \A i, j \in 1..Len(out) :
        (i < j /\ ParsesIso(out[i].ts) /\ ParsesIso(out[j].ts))
            => out[i].ts.wall <= out[j].ts.wall

\* `out` is the display form of the newest Len(out) rows: some order of all
\* rows that ascends in time has `out` as its tail
NewestOf(rws, out) ==
    \E q \in Perms(Len(rws)) :
        /\ \A i, j \in 1..Len(rws) :
              (i < j /\ SqlParses(rws[q[i]].ts) /\ SqlParses(rws[q[j]].ts))
                 => NotAfter(rws[q[i]].ts, rws[q[j]].ts)
        /\ \A i \in 1..Len(out) :
              out[i] = DisplayRow(rws[q[Len(rws) - Len(out) + i]])

\* C2: the History query with count k returns at most k records (none for
\* k <= 0), ascending in time, and they are the most recent rows of the
\* store.
C2_HistoryAtMostKNewest ==
    resp.op = "api_history" =>
        /\ Len(resp.out) <= Max(resp.arg[1], 0)
        /\ Len(resp.out) <= Len(rows)
        /\ AscendingOut(resp.out)
        /\ NewestOf(rows, resp.out)

AllZero(out) ==
    /\ out.voltage = "0"
    /\ out.current = "0"
    /\ out.power = "0"
    /\ out.energy_kwh = "0"
    /\ out.frequency = "0"
    /\ out.pf = "0"

\* C3: the Realtime query answers stale=true with all six numbers 0 when
\* nothing was ingested yet, or when the time the cached timestamp denotes
\* is more than 8 seconds before the evaluation instant, in whatever form
\* the timestamp was written.
C3_StaleWhenOld ==
    resp.op = "api_realtime" =>
        ((\/ DOMAIN latest_reading = {}
          \/ /\ HasTime(latest_reading.ts)
             /\ now - Instant(latest_reading.ts) > REALTIME_STALE_SEC)
            => (resp.out.stale /\ AllZero(resp.out)))

\* the UTC calendar day a timestamp text denotes, as days since 2024-01-01
UtcDay(ts) == Instant(ts) \div SecPerDay

RECURSIVE DaysBefore(_, _)
DaysBefore(lens, m) == IF m <= 1 THEN 0 ELSE lens[m - 1] + DaysBefore(lens, m - 1)

\* day d (days since 2024-01-01) lies in month m of year y
DayInMonth(d, y, m) ==
    LET first == (IF y = 2023 THEN 0 - 365 ELSE 0) + DaysBefore(MonthLens(y), m)
    IN  first <= d /\ d < first + MonthLens(y)[m]

\* the stored rows of (y, m), and those of one day
RowsOfMonth(y, m) ==
    {i \in 1..Len(rows) :
        HasTime(rows[i].ts) /\ DayInMonth(UtcDay(rows[i].ts), y, m)}
RowsOfDay(y, m, d) == {i \in RowsOfMonth(y, m) : UtcDay(rows[i].ts) = d}

C6_CacheUpdatedOnWriteFailure ==
    (resp.op \in {"on_message", "api_readings"} /\ resp.error = "storage")
        => latest_reading = resp.rec

\* C7: on_message always returns to its caller, leaving the listener ready
\* for the next message, whether the payload failed to decode or the write
\* failed; a payload that failed to decode changes neither the rows nor the
\* slot; and the message it does ingest is appended to the rows and put in
\* the slot.
C7_FeedSurvivesFailures ==
    [][/\ resp'.op = "on_message" =>
             (pc'[Mqtt] = "idle" /\ resp'.status = "returned")
       /\ Started =>
             pc'[Mqtt] \in {"idle", "insert", "acquire", "assign", "release", "print"}
       /\ (resp'.op = "on_message" /\ resp'.error = "decode") =>
             (rows' = rows /\ latest_reading' = latest_reading)
       /\ Commits(Mqtt) => rows' = Append(rows, rec[Mqtt])
       /\ Assigns(Mqtt) =>
             (latest_reading' = rec[Mqtt] /\ \E i \in 1..Len(rows) : rows[i] = rec[Mqtt])
      ]_vars

\* after a failed message, a well-formed one was stored and cached
C7_Witness ==
    /\ errlog >= 1
    /\ resp.op = "on_message"
    /\ resp.error = "none"
    /\ resp.kind = "object"
    /\ latest_reading = resp.rec
    /\ rows[Len(rows)] = resp.rec

\* C8: a push request whose body is malformed or empty appends no row and
\* leaves the slot as it was, and no such request ends in an unhandled
\* error.
C8_MalformedPushDiscarded ==
    [][/\ \A t \in HttpThreads :
             (req[t].kind \in {"malformed", "empty"} /\ pc'[t] # pc[t])
                => (rows' = rows /\ latest_reading' = latest_reading)
       /\ (resp'.op = "api_readings" /\ resp'.kind # "object")
             => resp'.status # "500"
      ]_vars

\* C9: every call of api_readings returns a boolean flag, true exactly when
\* the reading was appended.
C9_PushReturnsFlag ==
    resp.op = "api_readings" =>
        /\ resp.status = "200"
        /\ resp.out \in {[ok |-> TRUE], [ok |-> FALSE]}
        /\ resp.out.ok <=> resp.stored

\* C10: when every ingestion so far succeeded and none is in flight, the
\* store holds all their rows and the slot holds the reading whose insert
\* committed last.
C10_LaterCommitWinsCache ==
    (Quiescent /\ nmsg >= 2 /\ Len(rows) = nmsg)
        => latest_reading = rows[Len(rows)]

\* the payload of an ingestion leaves numeric field f out
Omits(m, f) ==
    IF f = "energy_kwh"
    THEN "energy_kwh" \notin DOMAIN m.data /\ "energy" \notin DOMAIN m.data
    ELSE f \notin DOMAIN m.data

\* C11: a numeric field the payload leaves out is None in the row the
\* ingestion appends and in the slot value it assigns, and a Realtime answer
\* with stale=false reports a field that is None in the slot as None, not
\* as 0.
C11_AbsentStaysAbsent ==
    [][/\ \A t \in Threads : \A f \in NumFields :
             Omits(req[t], f) =>
                /\ Commits(t) => rows'[Len(rows')][f] = None
                /\ Assigns(t) => latest_reading'[f] = None
       /\ (resp'.op = "api_realtime" /\ DOMAIN latest_reading # {}
              /\ ~resp'.out.stale)
             => \A f \in NumFields :
                   latest_reading[f] = None => resp'.out[f] = None
      ]_vars

\* what the feed adapter does with payload m is what the push adapter does
\* with it: both discard it, or both take it and build the same record
SameAsPush(m) ==
    /\ MqttDecodeError(m) => \A t \in HttpThreads : ~ENABLED ApiDecode(t, m)
    /\ MqttDecode(m) =>
          /\ \A t \in HttpThreads : ENABLED ApiDecode(t, m)
          /\ rec'[Mqtt] = ApiRecord(GetJsonOrEmpty(m), TsOrNow(GetJsonOrEmpty(m), now))

\* C12: a payload the feed adapter discards is one the push adapter
\* discards, and a payload the feed adapter ingests is one the push adapter
\* ingests with the same record, from the same state at the same instant.
C12_AdaptersAgree ==
    [][\A m \in SeqMsgs : SameAsPush(m)]_vars

\* row i has the greatest ts of the store, in the order of the column
GreatestTs(i) == \A j \in 1..Len(rows) : ~TextLess(rows[i].ts, rows[j].ts)

\* C13: the Latest query answers with an empty result when the store has no
\* rows, and otherwise with one record: a stored row with the greatest
\* timestamp, its six numbers as stored and its timestamp display-converted;
\* it never answers with an error.
C13_LatestIsGreatestRow ==
    resp.op = "api_latest" =>
        /\ resp.status = "200"
        /\ IF Len(rows) = 0 THEN resp.out = EmptyDict
           ELSE \E i \in 1..Len(rows) :
                   /\ GreatestTs(i)
                   /\ DOMAIN resp.out = RecordKeys
                   /\ resp.out.ts = to_th_iso(rows[i].ts)
                   /\ \A f \in NumFields : resp.out[f] = rows[i][f]

\* this step calls ensure_readings_schema: the __main__ block, a query on
\* the store, or a push request after its body was read
EnsureCalled ==
    \/ pc[Mqtt] = "unstarted" /\ pc'[Mqtt] = "idle"
    \/ resp'.op \in {"api_history", "api_latest", "api_monthly"}
    \/ \E t \in HttpThreads : pc[t] = "idle" /\ pc'[t] = "insert"
    \/ resp'.op = "api_readings" /\ resp'.error = "attribute"

\* C14: every call of ensure_readings_schema leaves a table with its index;
\* on a file without the table the call creates both as app.py declares
\* them; a declaration that exists is never changed, by a call or by any
\* other step; and no step changes or removes a row that is stored.
C14_SchemaEnsureIdempotent ==
    [][/\ EnsureCalled => (schema'.ts # "none" /\ schema'.index # "none")
       /\ (EnsureCalled /\ schema = NoSchema) => schema' = AppSchema
       /\ schema # NoSchema => schema' = schema
       /\ ~EnsureCalled => schema' = schema
       /\ Len(rows') >= Len(rows)
       /\ \A i \in 1..Len(rows) : rows'[i] = rows[i]
      ]_vars

\* the first call created the table, rows were stored, and a later call
\* (here by the History query) found both in place
C14_Witness ==
    /\ resp.op = "api_history"
    /\ schema = AppSchema
    /\ Len(rows) = 2

\* r is the normalized reading of one ingestion: of one payload an adapter
\* accepts, taken at one instant up to now
OneIngestion(r) ==
    \E m \in RaceMsgs : \E i \in Start..now :
        r = MqttRecord(GetJsonOrEmpty(m), TsOrNow(GetJsonOrEmpty(m), i))

\* C15: the slot, and every copy of it a reader took under the lock, is
\* empty or is in all seven fields the normalized reading of one single
\* ingestion; and a slot that is not empty never becomes empty.
C15_SlotIsOneReading ==
    /\ [](/\ latest_reading = EmptyDict \/ OneIngestion(latest_reading)
          /\ resp.op = "home" =>
                (resp.out = EmptyDict \/ OneIngestion(resp.out)))
    /\ [][latest_reading # EmptyDict => latest_reading' # EmptyDict]_vars

\* two ingestions of different payloads have both assigned the slot, and a
\* reader copied it: the copy is the second reading in all fields
C15_Witness ==
    /\ resp.op = "home"
    /\ Quiescent
    /\ Len(rows) = 2
    /\ rows[1].ts # rows[2].ts
    /\ rows[1].current # rows[2].current
    /\ resp.out \in {rows[1], rows[2]}

\* the positions whose next step reads or writes latest_reading: the two
\* assignments, the two copies, and the print at the end of on_message
SlotAccess == {"assign", "realtime", "home", "print"}

\* C16: a thread whose next step reads or writes the slot holds
\* latest_lock.
C16_SlotAccessUnderLock ==
    \A t \in Threads : pc[t] \in SlotAccess => latest_lock = t

\* the positions inside a with latest_lock block
InLock == {"assign", "release", "realtime", "home"}

\* the step thread t takes from here opens the database, runs a statement or
\* commits: the __main__ block, the schema check of a push request, an INSERT
StorageBy(t) ==
    \/ pc[t] = "unstarted"
    \/ pc[t] = "insert"
    \/ pc[t] = "idle" /\ pc'[t] = "insert"

\* C17: the thread that holds latest_lock is inside a with block, where it
\* only assigns or copies the slot; a step that works on the database is
\* taken by a thread that does not hold the lock, before or after the step;
\* and a lock that is held is released.
C17_NoLockAcrossStorage ==
    /\ [](\A t \in Threads : latest_lock = t => pc[t] \in InLock)
    /\ [][\A t \in Threads :
             (StorageBy(t) /\ pc'[t] # pc[t])
                => (latest_lock # t /\ latest_lock' # t)]_vars
    /\ \A t \in Threads : (latest_lock = t) ~> (latest_lock = "unlocked")

\* the feed thread holds the lock for its assignment while a push request
\* that has committed waits for the lock
C17_Witness ==
    /\ latest_lock = Mqtt
    /\ pc[Mqtt] = "assign"
    /\ pc["p1"] = "acquire"
    /\ Len(rows) = 2

Queries == {"api_history", "api_latest", "api_monthly", "api_realtime"}

\* C18: a step in which one of the four queries answers leaves the stored
\* rows and the slot as they were; a query on the store that is repeated
\* with the same arguments right after its answer gives the same answer; and
\* the Realtime answer is the evaluation of the slot at the instant of the
\* call, whatever was asked before.
C18_QueriesArePure ==
    [][/\ resp'.op \in Queries =>
             (rows' = rows /\ latest_reading' = latest_reading)
       /\ (resp.op \in Queries /\ resp'.op = resp.op /\ resp'.arg = resp.arg)
             => resp' = resp
       /\ (resp'.op = "api_realtime" /\ resp'.status = "200")
             => resp'.out = RealtimePayload(latest_reading, now)
      ]_vars

\* the History query answered for a store of two different rows with the
\* same timestamp, asked for one row
C18_Witness ==
    /\ resp.op = "api_history"
    /\ resp.arg = <<1>>
    /\ Len(resp.out) = 1
    /\ Len(rows) = 2
    /\ rows[1].ts = rows[2].ts
    /\ rows[1].voltage # rows[2].voltage

\* what a stored timestamp is to be shown as: the time it denotes plus 7
\* hours, without zone, when it is written in UTC; itself when it is no
\* timestamp; sts is what the query shows
ShownAs(ts, sts) ==
    CASE ts.form \in {"naive", "Z"} ->
            sts = Ts("display", Instant(ts) + 7 * SecPerHour, 0)
      [] ts.form = "max" -> FALSE
      [] ts.form = "bad" -> sts = ts
      [] OTHER -> TRUE

\* the records an answer of a query on the store holds
OutRecords ==
    IF resp.op = "api_latest"
    THEN IF resp.out = EmptyDict THEN {} ELSE {resp.out}
    ELSE {resp.out[k] : k \in 1..Len(resp.out)}

\* C19: a query on the store succeeds whatever timestamps are stored, and
\* each record it returns shows the timestamp of a stored row with the same
\* six numbers: converted (plus 7 hours, no zone suffix) when the stored
\* value is a timestamp written in UTC, unchanged when it is no timestamp.
C19_DisplayConversion ==
    resp.op \in {"api_history", "api_latest", "api_monthly"} =>
        /\ resp.status = "200"
        /\ \A d \in OutRecords :
              \E i \in 1..Len(rows) :
                  /\ \A f \in NumFields : d[f] = rows[i][f]
                  /\ ShownAs(rows[i].ts, d.ts)

\* C20: a slot that is not empty equals, in ts and the six numbers, a row
\* of the store; an adapter appends the values it normalized, keeps them
\* until it assigns the slot, and assigns them when its row is in the
\* store, with the ts it stored.
C20_CacheIsCommittedRow ==
    /\ [](latest_reading # EmptyDict =>
             \E i \in 1..Len(rows) : rows[i] = latest_reading)
    /\ [][\A t \in Threads :
             /\ Commits(t) => rows' = Append(rows, rec[t])
             /\ pc[t] \in {"insert", "acquire"} /\ pc'[t] # "idle"
                   => rec'[t] = rec[t]
             /\ Assigns(t) =>
                   /\ latest_reading' = rec[t]
                   /\ \E i \in 1..Len(rows) : rows[i] = rec[t]]_vars

\* a push request without ts has just assigned the slot, seconds after it
\* took the ingestion time: slot and row carry that ingestion time
C20_Witness ==
    \E t \in HttpThreads :
        /\ pc[t] = "release"
        /\ "ts" \notin DOMAIN req[t].data
        /\ now > Start
        /\ latest_reading.ts = UtcNowIso(Start)
        /\ \E i \in 1..Len(rows) : rows[i] = latest_reading

\* the time the text denotes is after instant t
InFuture(ts, t) == ts.form = "max" \/ (HasTime(ts) /\ Instant(ts) > t)

\* C21: for a slot that is not empty the Realtime query answers, with an
\* age_sec that is not negative; when the cached timestamp denotes a time
\* after the evaluation instant, or no more than 8 seconds before it, or is
\* no timestamp, the answer has age_sec 0 (future, unparseable), stale=false
\* and every number the slot holds.
C21_AgeNeverNegative ==
    (resp.op = "api_realtime" /\ latest_reading # EmptyDict) =>
        /\ resp.status = "200"
        /\ resp.out.age_sec >= 0
        /\ (InFuture(latest_reading.ts, now) \/ ~ParsesIso(latest_reading.ts))
              => resp.out.age_sec = 0
        /\ (\/ InFuture(latest_reading.ts, now)
            \/ ~ParsesIso(latest_reading.ts)
            \/ now - Instant(latest_reading.ts) <= REALTIME_STALE_SEC)
              => /\ ~resp.out.stale
                 /\ \A f \in NumFields :
                       latest_reading[f] # None
                          => resp.out[f] = latest_reading[f]

\* the same, for slots whose timestamp is not the last second of year 9999
C21_Sanity ==
    (latest_reading # EmptyDict /\ latest_reading.ts.form = "max")
        \/ C21_AgeNeverNegative

====
